---- MODULE Spec2Model ----
(***************************************************************************)
(* PlexiPDF: the PDFEngine wrapper (src/pdf_engine.py) and the Qt front    *)
(* end that drives it (src/editor_gui.py).                                 *)
(*                                                                         *)
(* A document is a sequence of pages (page number p of the code is element *)
(* p + 1 of the sequence).  A page holds what page.widgets() gives (enum   *)
(* says whether the enumeration is there at all), and the number of text   *)
(* runs inserted into its content.  A widget has a field name ("" when it  *)
(* has none), a field value and a field type.                              *)
(*                                                                         *)
(* What the wrapper takes from PyMuPDF is modelled as its interface says:  *)
(* load_page(n) takes page_count + n for a negative n and raises           *)
(* ValueError for a page that is not in the document; Widget.update()      *)
(* stores the widget's field_value in the document as it was assigned;     *)
(* Document.save(path) writes the target file in place.                    *)
(***************************************************************************)
EXTENDS Integers, Sequences, FiniteSets, TLC

VARIABLES
    doc,           \* engine.doc: the open document (<<>> with engine = FALSE)
    current_page,  \* engine.current_page
    engine,        \* PDFEditor.engine is not None
    call,          \* the engine call a caller of PDFEngine made last, with its inputs
    ret,           \* what the last call or handler returned or raised; for the two
                   \* edit handlers, "inserted" or "accepted" once the edit is applied
    fields,        \* the list the last list_form_fields() returned
    pix,           \* the pixmap the last render_page() returned
    file,          \* the file at the path save() was last given
    label,         \* page_label's pixmap
    spin,          \* page_spin: minimum, maximum, value
    add_text_mode  \* PDFEditor.add_text_mode

vars == <<doc, current_page, engine, call, ret, fields, pix, file, label, spin,
          add_text_mode>>

(***************************************************************************)
(* Bounds of the model.                                                    *)
(***************************************************************************)
MaxPages == 2
MaxWidgets == 2
MaxTexts == 1

(***************************************************************************)
(* Field names, values and types.                                          *)
(***************************************************************************)
FieldNames == {"", "a", "b"}
QueryNames == {"a", "b", "zz"}
NewValues == {"Yes", "x"}
FieldTypes == {"Text", "CheckBox"}

InitialValue(t) == IF t = "CheckBox" THEN "Off" ELSE ""

InitWidgets ==
    {[name |-> n, value |-> InitialValue(t), type |-> t] :
        n \in FieldNames, t \in FieldTypes}

SeqsOfLen(S, n) == [1..n -> S]

\* The pages of a freshly opened file that hold exactly k widgets.
PagesWith(k) ==
    IF k = 0
    THEN {[enum |-> e, widgets |-> <<>>, texts |-> 0] :
            e \in {"ok", "AttributeError", "None"}}
    ELSE {[enum |-> "ok", widgets |-> ws, texts |-> 0] :
            ws \in SeqsOfLen(InitWidgets, k)}

RECURSIVE DocsWith(_, _)
\* The documents of n pages that hold at most k widgets.
DocsWith(n, k) ==
    IF n = 0 THEN {<<>>}
    ELSE UNION {{<<p>> \o rest : p \in PagesWith(j), rest \in DocsWith(n - 1, k - j)} :
                  j \in 0..k}

FormDocs == UNION {DocsWith(n, MaxWidgets) : n \in 0..MaxPages}

(***************************************************************************)
(* PDFEngine                                                               *)
(***************************************************************************)
page_count(d) == Len(d)

NoCall == [op |-> "none", name |-> "", value |-> "", index |-> 0]
NoPix == [ok |-> FALSE, pno |-> 0, widgets |-> <<>>, texts |-> 0]

\* fitz: Document.load_page(page_number).  The page number it loads, or -1
\* for the ValueError it raises ("page not in document").
LoadPage(d, page_number) ==
    IF page_count(d) = 0 \/ page_number >= page_count(d) THEN -1
    ELSE page_number % page_count(d)

\* page.widgets() of _iter_widgets, with its fallbacks to [].
PageWidgets(page) == IF page.enum = "ok" THEN page.widgets ELSE <<>>

RECURSIVE WidgetsFrom(_, _, _)
\* The widgets _iter_widgets yields from widget i of page pno on, as places
\* <<pno, i>>, in the order it yields them.
WidgetsFrom(d, pno, i) ==
    IF pno >= Len(d) THEN <<>>
    ELSE IF i > Len(PageWidgets(d[pno + 1])) THEN WidgetsFrom(d, pno + 1, 1)
    ELSE <<(<<pno, i>>)>> \o WidgetsFrom(d, pno, i + 1)

_iter_widgets(d) == WidgetsFrom(d, 0, 1)

WidgetAt(d, loc) == d[loc[1] + 1].widgets[loc[2]]

RECURSIVE FieldsOfUnfiltered(_, _)
\* FieldsOf without the test of w.field_name.
FieldsOfUnfiltered(d, locs) ==
    IF locs = <<>> THEN <<>>
    ELSE LET w == WidgetAt(d, Head(locs))
         IN  <<[name |-> w.name, value |-> w.value, type |-> w.type]>>
                 \o FieldsOfUnfiltered(d, Tail(locs))

RECURSIVE FieldsOf(_, _)
\* The loop of list_form_fields over the widgets at locs.
FieldsOf(d, locs) ==
    IF locs = <<>> THEN <<>>
    ELSE LET w == WidgetAt(d, Head(locs))
         IN  (IF w.name # ""
              THEN <<[name |-> w.name, value |-> w.value, type |-> w.type]>>
              ELSE <<>>) \o FieldsOf(d, Tail(locs))

list_form_fields(d) == FieldsOf(d, _iter_widgets(d))

RECURSIVE FirstMatch(_, _, _)
\* The first place of locs whose widget is named name; <<>> when there is none.
FirstMatch(d, locs, name) ==
    IF locs = <<>> THEN <<>>
    ELSE IF WidgetAt(d, Head(locs)).name = name THEN Head(locs)
    ELSE FirstMatch(d, Tail(locs), name)

SetValue(d, loc, value) ==
    [d EXCEPT ![loc[1] + 1].widgets[loc[2]].value = value]

RECURSIVE SetAll(_, _, _, _)
SetAll(d, locs, name, value) ==
    IF locs = <<>> THEN d
    ELSE SetAll(IF WidgetAt(d, Head(locs)).name = name
                THEN SetValue(d, Head(locs), value) ELSE d,
                Tail(locs), name, value)

\* update_form_field without its return: every widget named name is set.
update_every_match(d, name, value) == SetAll(d, _iter_widgets(d), name, value)

\* update_form_field without w.update(): the document keeps the old value.
update_not_stored(d, name, value) == d

\* update_form_field writing through the loop variable after the loop: with
\* no match, the widget seen last is set.
update_last_seen(d, name, value) ==
    LET locs == _iter_widgets(d)
        loc == FirstMatch(d, locs, name)
    IN  IF loc # <<>> THEN SetValue(d, loc, value)
        ELSE IF locs # <<>> THEN SetValue(d, locs[Len(locs)], value)
        ELSE d

\* The document after update_form_field(name, value).
update_form_field(d, name, value) ==
    LET loc == FirstMatch(d, _iter_widgets(d), name)
    IN  IF loc = <<>> THEN d ELSE SetValue(d, loc, value)

\* update_form_field has no return statement.
update_form_field_result(d, name, value) == "None"

\* render_page(page_number, zoom): the pixmap shows the page's content (its
\* widgets' values and its inserted text); ok = FALSE stands for the
\* ValueError of load_page.  The zoom scales the pixmap only.
render_page(d, page_number) ==
    LET p == LoadPage(d, page_number)
    IN  IF p = -1 THEN NoPix
        ELSE [ok |-> TRUE, pno |-> p, widgets |-> d[p + 1].widgets,
              texts |-> d[p + 1].texts]

\* The document after insert_text(page_number, x, y, text); unchanged when
\* load_page raises.
insert_text(d, page_number) ==
    LET p == LoadPage(d, page_number)
    IN  IF p = -1 THEN d ELSE [d EXCEPT ![p + 1].texts = @ + 1]

\* The file at path after save(path): doc.save writes path itself, so a
\* write that fails on the way leaves what was written so far.
save(f, outcome) ==
    CASE outcome = "written" -> "saved"
      [] outcome = "not_opened" -> f
      [] outcome = "write_failed" -> "partial"

save_result(outcome) == IF outcome = "written" THEN "None" ELSE "IOError"

(***************************************************************************)
(* A caller of the form-field interface of an engine built on some file.   *)
(***************************************************************************)
InitForm ==
    /\ doc \in FormDocs
    /\ current_page = 0
    /\ engine = TRUE
    /\ call = NoCall
    /\ ret = "None"
    /\ fields = <<>>
    /\ pix = NoPix
    /\ file = "absent"
    /\ label = NoPix
    /\ spin = [minimum |-> 1, maximum |-> 99, value |-> 1]
    /\ add_text_mode = FALSE

ListFormFields ==
    /\ call' = [NoCall EXCEPT !.op = "list_form_fields"]
    /\ fields' = list_form_fields(doc)
    /\ ret' = "list"
    /\ UNCHANGED <<doc, current_page, engine, pix, file, label, spin, add_text_mode>>

UpdateFormField ==
    \E name \in QueryNames, value \in NewValues :
        /\ call' = [NoCall EXCEPT !.op = "update_form_field", !.name = name,
                                  !.value = value]
        /\ doc' = update_form_field(doc, name, value)
        /\ ret' = update_form_field_result(doc, name, value)
        /\ fields' = <<>>
        /\ UNCHANGED <<current_page, engine, pix, file, label, spin, add_text_mode>>

NextForm == ListFormFields \/ UpdateFormField

FormSpec == InitForm /\ [][NextForm]_vars

(***************************************************************************)
(* Document order, stated without the iteration: the places of a document  *)
(* and which of two comes first.                                           *)
(***************************************************************************)
Places(d) ==
    UNION {{<<p, i>> : i \in 1..Len(d[p + 1].widgets)} : p \in 0..(Len(d) - 1)}

Before(l1, l2) == l1[1] < l2[1] \/ (l1[1] = l2[1] /\ l1[2] < l2[2])

Named(d, n) == {l \in Places(d) : WidgetAt(d, l).name = n}

NamedPlaces(d) == {l \in Places(d) : WidgetAt(d, l).name # ""}

IsFirstNamed(d, l, n) ==
    l \in Named(d, n) /\ \A l2 \in Named(d, n) : ~Before(l2, l)

Entry(w) == [name |-> w.name, value |-> w.value, type |-> w.type]

Rank(d, l) == 1 + Cardinality({l2 \in NamedPlaces(d) : Before(l2, l)})

Updated == call.op = "update_form_field"

\* C1: right after update_form_field(n, v) returned, for n the name of some
\* widget, list_form_fields() has an entry named n, and the first such entry
\* (the first widget named n in document order) has the value v.
C1_UpdateThenList ==
    (Updated /\ Named(doc, call.name) # {}) =>
        LET fs == list_form_fields(doc)
            hits == {i \in 1..Len(fs) : fs[i].name = call.name}
        IN  /\ hits # {}
            /\ \A i \in hits : (\A j \in hits : i <= j) => fs[i].value = call.value

C1_Witness ==
    /\ Updated /\ ret = "None"
    /\ Cardinality(Named(doc, call.name)) >= 2
    /\ \E l \in Named(doc, call.name) : WidgetAt(doc, l).value # call.value

\* C2: a step of update_form_field(name, value) changes one widget only, the
\* first one named name (pages ascending, then the widgets of a page in
\* order), whose value becomes value; every other widget, the later ones of
\* the same name among them, and the shape of the document stay as they were.
C2_OnlyFirstMatch ==
    [][call'.op = "update_form_field" =>
        /\ Len(doc') = Len(doc)
        /\ Places(doc') = Places(doc)
        /\ \A p \in 1..Len(doc) :
              doc'[p].enum = doc[p].enum /\ doc'[p].texts = doc[p].texts
        /\ \A l \in Places(doc) :
              IF IsFirstNamed(doc, l, call'.name)
              THEN WidgetAt(doc', l) = [WidgetAt(doc, l) EXCEPT !.value = call'.value]
              ELSE WidgetAt(doc', l) = WidgetAt(doc, l)]_vars

C2_Witness ==
    /\ Updated
    /\ \E l1, l2 \in Named(doc, call.name) :
          /\ Before(l1, l2)
          /\ l1[1] # l2[1]
          /\ WidgetAt(doc, l1).value = call.value
          /\ WidgetAt(doc, l2).value # call.value

\* C3: a step of update_form_field(name, value) on a document none of whose
\* widgets is named name raises nothing and leaves the document (every
\* widget's name, value and type, the number of pages) and current_page as
\* they were.
C3_NoMatchNoOp ==
    [][(call'.op = "update_form_field" /\ Named(doc, call'.name) = {}) =>
        /\ doc' = doc
        /\ page_count(doc') = page_count(doc)
        /\ current_page' = current_page
        /\ ret' = "None"]_vars

C3_Witness ==
    /\ Updated /\ ret = "None"
    /\ Named(doc, call.name) = {}
    /\ NamedPlaces(doc) # {}

\* C4: update_form_field returns a success flag: True when a widget named
\* name was found and updated, False when none matched.
C4_SuccessFlag ==
    Updated => ret = (IF Named(doc, call.name) # {} THEN "True" ELSE "False")

\* C5: list_form_fields() returns one {name, value, type} entry for each
\* widget with a non-empty field name, in document order, none for a widget
\* without a name, and the empty list, not an error, when no widget is named.
C5_ListNamedInOrder ==
    call.op = "list_form_fields" =>
        /\ ret = "list"
        /\ Len(fields) = Cardinality(NamedPlaces(doc))
        /\ \A l \in NamedPlaces(doc) : fields[Rank(doc, l)] = Entry(WidgetAt(doc, l))

C5_Witness ==
    /\ call.op = "list_form_fields"
    /\ Len(fields) = 1
    /\ Cardinality(Places(doc)) = 2
    /\ \E l \in Places(doc) : WidgetAt(doc, l).name = "" /\ l[1] = 0

C5_WitnessEmpty ==
    /\ call.op = "list_form_fields"
    /\ fields = <<>>
    /\ \E p \in 1..Len(doc) : doc[p].enum = "AttributeError"

\* The export values of a check box: its on state and Off.
ExportValues == {"Yes", "Off"}

\* C7: update_form_field of a check box with a value that is none of its
\* export values raises ValidationError and the field keeps its value, so
\* the value of a check box is always one of its export values.
C7_CheckBoxValidated ==
    /\ \A l \in Places(doc) :
          WidgetAt(doc, l).type = "CheckBox" => WidgetAt(doc, l).value \in ExportValues
    /\ (Updated /\ call.value \notin ExportValues
          /\ \E l \in Places(doc) :
                IsFirstNamed(doc, l, call.name) /\ WidgetAt(doc, l).type = "CheckBox")
        => ret = "ValidationError"

(***************************************************************************)
(* A caller of the page interface (render_page, insert_text, save) of an   *)
(* engine built on some file.                                              *)
(***************************************************************************)
PageDocs == UNION {DocsWith(n, 0) : n \in 0..MaxPages}

PageNumbers == -1..MaxPages

RECURSIVE TotalTexts(_)
\* The text runs inserted so far, which the model bounds.
TotalTexts(d) == IF d = <<>> THEN 0 ELSE Head(d).texts + TotalTexts(Tail(d))

InitPages ==
    /\ doc \in PageDocs
    /\ current_page = 0
    /\ engine = TRUE
    /\ call = NoCall
    /\ ret = "None"
    /\ fields = <<>>
    /\ pix = NoPix
    /\ file \in {"absent", "old"}
    /\ label = NoPix
    /\ spin = [minimum |-> 1, maximum |-> 99, value |-> 1]
    /\ add_text_mode = FALSE

RenderPage ==
    \E index \in PageNumbers :
        /\ call' = [NoCall EXCEPT !.op = "render_page", !.index = index]
        /\ pix' = render_page(doc, index)
        /\ ret' = IF pix'.ok THEN "pixmap" ELSE "ValueError"
        /\ UNCHANGED <<doc, current_page, engine, fields, file, label, spin,
                       add_text_mode>>

InsertText ==
    \E page_number \in PageNumbers :
        /\ TotalTexts(doc) < MaxTexts
        /\ call' = [NoCall EXCEPT !.op = "insert_text", !.index = page_number]
        /\ doc' = insert_text(doc, page_number)
        /\ ret' = IF LoadPage(doc, page_number) = -1 THEN "ValueError" ELSE "None"
        /\ pix' = NoPix
        /\ UNCHANGED <<current_page, engine, fields, file, label, spin, add_text_mode>>

Save ==
    \E outcome \in {"written", "not_opened", "write_failed"} :
        /\ call' = [NoCall EXCEPT !.op = "save", !.value = outcome]
        /\ file' = save(file, outcome)
        /\ ret' = save_result(outcome)
        /\ pix' = NoPix
        /\ UNCHANGED <<doc, current_page, engine, fields, label, spin, add_text_mode>>

NextPages == RenderPage \/ InsertText \/ Save

PageSpec == InitPages /\ [][NextPages]_vars

\* C6: render_page(-1) and render_page(page_count()) both fail with an error
\* and return no pixmap; render_page returns a pixmap only for an index in
\* 0 .. page_count() - 1.
C6_RenderBounds ==
    call.op = "render_page" =>
        /\ pix.ok => call.index \in 0..(page_count(doc) - 1)
        /\ call.index \in {-1, page_count(doc)} => ret = "ValueError"

\* C8: a save that fails reports IOError and leaves the file at path absent
\* or as it was before the call, never partly written.
C8_SaveAtomic ==
    [][(call'.op = "save" /\ ret' = "IOError") => file' \in {"absent", file}]_vars

(***************************************************************************)
(* PDFEditor: the window's handlers.  A handler works on the record of     *)
(* what it can change: the document, current_page, the label's pixmap and  *)
(* the spin box; raised tells that it ended in the ValueError of           *)
(* load_page.  The buttons, the spin box and the actions other than Open   *)
(* are enabled by the first open_file that builds an engine, so their      *)
(* handlers run with an engine only.                                       *)
(***************************************************************************)
MaxGuiWidgets == 1

\* The files the user opens: every page enumerates its widgets, and the
\* widgets are named text fields.
GuiDocs ==
    {d \in UNION {DocsWith(n, MaxGuiWidgets) : n \in 0..MaxPages} :
        \A p \in 1..Len(d) :
            /\ d[p].enum = "ok"
            /\ \A i \in 1..Len(d[p].widgets) :
                  d[p].widgets[i].type = "Text" /\ d[p].widgets[i].name # ""}

Min(a, b) == IF a < b THEN a ELSE b

Clamp(v, lo, hi) == IF v < lo THEN lo ELSE IF v > hi THEN hi ELSE v

Gui == [doc |-> doc, current_page |-> current_page, label |-> label, spin |-> spin,
        raised |-> FALSE]

\* show_page(index)
show_page(st, index) ==
    LET pixmap == render_page(st.doc, index)
    IN  IF ~pixmap.ok
        THEN [st EXCEPT !.current_page = index, !.raised = TRUE]
        ELSE [st EXCEPT !.current_page = index,
                        !.label = pixmap,
                        !.spin.value = Clamp(index + 1, st.spin.minimum, st.spin.maximum)]

\* goto_page(val) as the slot of page_spin.valueChanged.
goto_page(st, val) == show_page(st, val - 1)

\* QSpinBox.setMaximum: the minimum follows a smaller maximum and the value is
\* brought into the range.
setMaximum(sp, total) ==
    LET mn == Min(sp.minimum, total)
    IN  [minimum |-> mn, maximum |-> total, value |-> Clamp(sp.value, mn, total)]

\* open_file once PDFEngine(path) has built the engine on document d.  The
\* value a smaller maximum forces on the spin box is signalled to goto_page,
\* in which an exception ends the slot and not open_file.
open_file(st, d) ==
    LET sp == setMaximum(st.spin, page_count(d))
        st1 == [st EXCEPT !.doc = d, !.current_page = 0, !.spin = sp]
        st2 == IF sp.value # st.spin.value
               THEN [goto_page(st1, sp.value) EXCEPT !.raised = FALSE]
               ELSE st1
    IN  show_page(st2, 0)

\* _handle_add_text_click from the mapping to PDF coordinates on, with the
\* refresh ahead of the insertion.
add_text_stale(st) ==
    IF LoadPage(st.doc, st.current_page) = -1
    THEN [st EXCEPT !.raised = TRUE]
    ELSE [show_page(st, st.current_page) EXCEPT
              !.doc = insert_text(st.doc, st.current_page)]

\* _handle_add_text_click from the mapping to PDF coordinates on.
add_text(st) ==
    IF LoadPage(st.doc, st.current_page) = -1
    THEN [st EXCEPT !.raised = TRUE]
    ELSE show_page([st EXCEPT !.doc = insert_text(st.doc, st.current_page)],
                   st.current_page)

RECURSIVE NamesOf(_)
\* The keys of FieldsDialog._updates in the order accept() inserts them.
NamesOf(fs) ==
    IF fs = <<>> THEN <<>>
    ELSE LET rest == NamesOf(SubSeq(fs, 1, Len(fs) - 1))
             n == fs[Len(fs)].name
         IN  IF \E i \in 1..Len(rest) : rest[i] = n THEN rest ELSE rest \o <<n>>

\* The text of the value cell of the last row named n when nobody edits it:
\* str(f["value"] or "").
CellText(fs, n) ==
    LET rows == {i \in 1..Len(fs) : fs[i].name = n}
    IN  fs[CHOOSE i \in rows : \A j \in rows : j <= i].value

RECURSIVE ApplyUpdates(_, _, _)
\* The loop of open_fields_dialog over get_updates().items().
ApplyUpdates(d, names, updates) ==
    IF names = <<>> THEN d
    ELSE ApplyUpdates(update_form_field(d, Head(names), updates[Head(names)]),
                      Tail(names), updates)

\* open_fields_dialog once the dialog is accepted with the refresh ahead of
\* the updates.
fields_accepted_stale(st, names, updates) ==
    [show_page(st, st.current_page) EXCEPT
        !.doc = ApplyUpdates(st.doc, names, updates)]

\* open_fields_dialog once the dialog is accepted.
fields_accepted(st, names, updates) ==
    show_page([st EXCEPT !.doc = ApplyUpdates(st.doc, names, updates)],
              st.current_page)

Into(st) ==
    /\ doc' = st.doc
    /\ current_page' = st.current_page
    /\ label' = st.label
    /\ spin' = st.spin

Raised(st) == IF st.raised THEN "ValueError" ELSE "None"

Init ==
    /\ doc = <<>>
    /\ current_page = 0
    /\ engine = FALSE
    /\ call = NoCall
    /\ ret = "None"
    /\ fields = <<>>
    /\ pix = NoPix
    /\ file = "absent"
    /\ label = NoPix
    /\ spin = [minimum |-> 1, maximum |-> 99, value |-> 1]
    /\ add_text_mode = FALSE

\* open_file: the file dialog is cancelled, PDFEngine(path) raises, or the
\* engine is built on the document d of the chosen file.
OpenFile ==
    \/ /\ ret' = "None"
       /\ UNCHANGED <<doc, current_page, engine, call, fields, pix, file, label, spin,
                      add_text_mode>>
    \/ \E d \in GuiDocs :
           LET st == open_file(Gui, d)
           IN  /\ engine' = TRUE
               /\ Into(st)
               /\ ret' = Raised(st)
               /\ UNCHANGED <<call, fields, pix, file, add_text_mode>>

ResizeEvent ==
    /\ IF engine
       THEN LET st == show_page(Gui, current_page)
            IN  Into(st) /\ ret' = Raised(st)
       ELSE UNCHANGED <<doc, current_page, label, spin>> /\ ret' = "None"
    /\ UNCHANGED <<engine, call, fields, pix, file, add_text_mode>>

PrevPage ==
    /\ engine
    /\ IF current_page > 0
       THEN LET st == show_page(Gui, current_page - 1)
            IN  Into(st) /\ ret' = Raised(st)
       ELSE UNCHANGED <<doc, current_page, label, spin>> /\ ret' = "None"
    /\ UNCHANGED <<engine, call, fields, pix, file, add_text_mode>>

NextPage ==
    /\ engine
    /\ IF current_page < page_count(doc) - 1
       THEN LET st == show_page(Gui, current_page + 1)
            IN  Into(st) /\ ret' = Raised(st)
       ELSE UNCHANGED <<doc, current_page, label, spin>> /\ ret' = "None"
    /\ UNCHANGED <<engine, call, fields, pix, file, add_text_mode>>

\* The user sets page_spin to another value of its range: valueChanged(val).
GotoPage ==
    /\ engine
    /\ \E val \in spin.minimum..spin.maximum :
           /\ val # spin.value
           /\ LET st == goto_page([Gui EXCEPT !.spin.value = val], val)
              IN  Into(st) /\ ret' = Raised(st)
    /\ UNCHANGED <<engine, call, fields, pix, file, add_text_mode>>

ToggleAddText ==
    /\ engine
    /\ \E checked \in BOOLEAN :
           /\ checked # add_text_mode
           /\ add_text_mode' = checked
    /\ ret' = "None"
    /\ UNCHANGED <<doc, current_page, engine, call, fields, pix, file, label, spin>>

\* eventFilter on a left click on the label in add-text mode, and
\* _handle_add_text_click: no pixmap, the prompt cancelled or empty, a click
\* in the padding, or the insertion and the refresh.
HandleAddTextClick ==
    /\ engine /\ add_text_mode
    /\ \E entered \in BOOLEAN, inside \in BOOLEAN :
           IF ~label.ok THEN
               /\ ret' = "None"
               /\ UNCHANGED <<doc, current_page, label, spin>>
           ELSE IF ~entered THEN
               /\ ret' = "None"
               /\ UNCHANGED <<doc, current_page, label, spin>>
           ELSE IF ~inside THEN
               /\ ret' = "None"
               /\ UNCHANGED <<doc, current_page, label, spin>>
           ELSE
               /\ TotalTexts(doc) < MaxTexts
               /\ LET st == add_text(Gui)
                  IN  Into(st) /\ ret' = IF st.raised THEN "ValueError" ELSE "inserted"
    /\ UNCHANGED <<engine, call, fields, pix, file, add_text_mode>>

\* open_fields_dialog: no fields, the dialog rejected, or accepted with each
\* row's value cell left as it was or edited.
OpenFieldsDialog ==
    /\ engine
    /\ LET fs == list_form_fields(doc)
           names == NamesOf(fs)
           keys == {names[i] : i \in 1..Len(names)}
       IN  IF fs = <<>> THEN
               /\ ret' = "None"
               /\ UNCHANGED <<doc, current_page, label, spin>>
           ELSE \E accepted \in BOOLEAN :
               IF ~accepted THEN
                   /\ ret' = "None"
                   /\ UNCHANGED <<doc, current_page, label, spin>>
               ELSE \E updates \in [keys -> NewValues \cup {CellText(fs, n) : n \in keys}] :
                   /\ \A n \in keys : updates[n] \in NewValues \cup {CellText(fs, n)}
                   /\ LET st == fields_accepted(Gui, names, updates)
                      IN  Into(st) /\ ret' = IF st.raised THEN "ValueError" ELSE "accepted"
    /\ UNCHANGED <<engine, call, fields, pix, file, add_text_mode>>

Next ==
    \/ OpenFile
    \/ ResizeEvent
    \/ PrevPage
    \/ NextPage
    \/ GotoPage
    \/ ToggleAddText
    \/ HandleAddTextClick
    \/ OpenFieldsDialog

Spec == Init /\ [][Next]_vars

\* C9: when a handler ends having applied a text insertion or an accepted
\* form-field edit, the label shows a render of the current page of the
\* document as the edit left it, and the edit did not change current_page.
C9_EditThenFreshView ==
    [][ret' \in {"inserted", "accepted"} =>
        /\ label'.ok
        /\ label' = render_page(doc', current_page')
        /\ current_page' = current_page]_vars

C9_Witness ==
    /\ ret = "inserted"
    /\ current_page = 1
    /\ label.ok /\ label.pno = 1 /\ label.texts = 1

C9_WitnessFields ==
    /\ ret = "accepted"
    /\ label.ok /\ label.widgets # <<>>
    /\ label.widgets[1].value = "x"

\* C10: with an engine, current_page is a page of the document: it stays
\* within 0 .. page_count() - 1 after every handler, after opening a document
\* with zero pages too.
C10_CurrentPageInRange ==
    engine => current_page \in 0..(page_count(doc) - 1)

====
